---- MODULE Spec2Model ----
(***************************************************************************)
(* A model of the tracing data path of skibon02/tracer:                    *)
(*   - the shared trace buffer AtomicTimestampsRing (src/src/fifo.rs),     *)
(*   - the global staging store GlobalStorage                              *)
(*     (src/sparkles/src/global_storage.rs), its sender thread and         *)
(*     finalize().                                                         *)
(* The index stores of fifo.rs (module fifo_cnt) and the code that         *)
(* publishes to GlobalStorage are not part of the sources at hand; their   *)
(* operations are modelled from the specification.                         *)
(***************************************************************************)
EXTENDS Integers, Sequences, FiniteSets, TLC

(***************************************************************************)
(* Program constants of fifo.rs                                            *)
(***************************************************************************)
RINGBUF_IND_MASK == 255
\* a slip: the in-progress limit taken to be the ring mask
MaxInProgressIsMask == RINGBUF_IND_MASK

MAX_IN_PROGRESS_BYTES_WRITE == 80
\* `v.len() as u8`: the width of the length that try_push keeps
U8_RANGE == 256
\* `let index_mask = 3;` of the truth-table tests
TEST_INDEX_MASK == 3

(***************************************************************************)
(* Bounds of the model                                                     *)
(***************************************************************************)
\* successful reservations in one behaviour of the shared trace buffer
MaxPushes == 4
\* try_push calls in the fill scenario (25 fit, the rest must be refused)
MaxFillCalls == 27
\* largest n of the truth tables
TableMaxN == 3

\* the concurrent producers
Producers == {1, 2}
\* slice lengths inside the contract |bytes| <= 255
PushLens == {40, 80, 81, 255}
\* slice lengths of the oversize scenario: also lengths that do not fit a u8
OversizeLens == {1, 81, 256, 300}
\* the slice length of the fill scenario
FillLens == {10}
\* the N of try_pop::<N>
PopLens == {40, 80}

VARIABLES
    \* ---- AtomicTimestampsRing
    buf,            \* the byte cells, index -> byte
    write_ind,      \* LockFreeIndexStore: [index, to_write, pending]
    read_ind,       \* LockIndexStore: [index, locked]
    \* ---- a producer inside try_push
    pc,             \* "idle" | "reserved" | "written"
    vlen,           \* v.len()
    n,              \* v.len() as u8
    to_write_index, \* start of the reserved range
    pushId,         \* which reservation (1-based, in reservation order)
    res,            \* last result: "none" | "ok" | "full"
    \* ---- the consumer inside try_pop
    cpc,            \* "idle" | "started" | "read"
    cN,             \* the const N
    to_read_index,
    popped,         \* the array returned, as a sequence
    cres,           \* last result: "none" | "some" | "empty"
    \* ---- history (not program state)
    lens,           \* the n of every reservation, in reservation order
    popBase,        \* bytes popped before the current / last pop
    popRace,        \* a pop read a cell of a reserved, uncommitted range
    overwrote,      \* a push wrote a cell holding a byte not yet popped
    calls,          \* try_push calls made
    \* ---- truth tables
    t_r, t_w, t_n, t_op, t_res,
    \* ---- GlobalStorage
    inner,          \* the bytes of the ring, oldest first, as runs of bytes
    head,           \* the physical index of the oldest byte
    skipped_msr_pages_headers,
    panicked,       \* an unwrap() failed inside push_buf
    undecoded,      \* the drop pass met bytes this model does not decode
    nextId,         \* frames handed to push_buf so far
    lastTake,       \* what the last try_take_buf returned
    lastFailed,     \* what the last take_failed_pages returned
    \* ---- history of GlobalStorage (not program state)
    delivered,      \* the bytes returned by try_take_buf so far, in order
    dropLog,        \* the headers recorded as skipped so far, in order
    \* ---- the process: GLOBAL_STORAGE, its mutex, the sender, finalize()
    GLOBAL_STORAGE,   \* the Option in the static: "None" | "Some"
    mutex,            \* who holds the mutex of GLOBAL_STORAGE, or "free"
    FINALIZE_STARTED, \* the AtomicBool
    sending_thread,   \* the Option<JoinHandle>: "None" | "Some"
    spc,              \* where the sender thread is
    is_finalizing,    \* the sender's local of that name
    wire,             \* what the sender wrote to the socket, in order
    fpc,              \* where each caller of finalize() is
    jh                \* the local jh of each caller of finalize() is Some

stbVars == <<buf, write_ind, read_ind, pc, vlen, n, to_write_index, pushId, res,
             cpc, cN, to_read_index, popped, cres, lens, popBase, popRace,
             overwrote, calls>>
tabVars == <<t_r, t_w, t_n, t_op, t_res>>
gssVars == <<inner, head, skipped_msr_pages_headers, panicked, undecoded, nextId,
             lastTake, lastFailed, delivered, dropLog>>
thrVars == <<GLOBAL_STORAGE, mutex, FINALIZE_STARTED, sending_thread, spc,
             is_finalizing, wire, fpc, jh>>
vars == <<stbVars, tabVars, gssVars, thrVars>>

(***************************************************************************)
(* Helpers                                                                 *)
(***************************************************************************)
RECURSIVE BitAnd(_, _)
\* a & b on naturals
BitAnd(a, b) ==
    IF a = 0 \/ b = 0 THEN 0
    ELSE (a % 2) * (b % 2) + 2 * BitAnd(a \div 2, b \div 2)

\* the byte i of the slice of reservation id; <<0, 0>> marks an uninitialised cell
Byte(id, i) == <<id, i>>
Uninit == <<0, 0>>

RECURSIVE SumSeq(_)
SumSeq(s) == IF s = <<>> THEN 0 ELSE Head(s) + SumSeq(Tail(s))

RECURSIVE Locate(_, _, _)
\* the k-th byte (0-based) of the stream of all reserved slices
Locate(s, k, id) ==
    IF s = <<>> THEN Uninit
    ELSE IF k < Head(s) THEN Byte(id, k)
    ELSE Locate(Tail(s), k - Head(s), id + 1)

StreamByte(k) == Locate(lens, k, 1)

(***************************************************************************)
(* fifo.rs: can_pop, can_push                                              *)
(***************************************************************************)
\* a slip: > for >=
can_pop_strict(r, w, nn, index_mask) ==
    BitAnd(w + index_mask + 1 - r, index_mask) > nn

can_pop(r, w, nn, index_mask) ==
    BitAnd(w + index_mask + 1 - r, index_mask) >= nn

\* a slip: > for >=
can_push_strict(r, w, nn, index_mask) ==
    BitAnd(index_mask + r - w, index_mask) > nn

\* a slip: the cell that keeps a full ring apart from an empty one is given away
can_push_nospare(r, w, nn, index_mask) ==
    BitAnd(index_mask + 1 + r - w, index_mask) >= nn

can_push(r, w, nn, index_mask) ==
    BitAnd(index_mask + r - w, index_mask) >= nn

(***************************************************************************)
(* Index stores (module fifo_cnt)                                          *)
(*   write_ind.to_write : the reservation frontier, handed to the closure  *)
(*   write_ind.pending  : bytes reserved and not yet committed (W_pending) *)
(*   write_ind.index    : the committed write index, what load().index()   *)
(*                        gives the consumer; it moves to the frontier     *)
(*                        when pending returns to zero                     *)
(***************************************************************************)
\* try_push's closure: the ring has no room for nn bytes at to_write
push_error_condition(to_write, nn) ==
    ~can_push(read_ind.index, to_write, nn, RINGBUF_IND_MASK)

\* a slip: the closure compares against the reservation frontier
pop_error_condition_frontier(to_read, nn) ==
    ~can_pop(to_read, write_ind.to_write, nn, RINGBUF_IND_MASK)

\* try_pop's closure: fewer than nn committed bytes at to_read
pop_error_condition(to_read, nn) ==
    ~can_pop(to_read, write_ind.index, nn, RINGBUF_IND_MASK)

\* whether the reservation of nn bytes is granted
increment_in_progress_ok(nn) ==
    /\ ~push_error_condition(write_ind.to_write, nn)
    /\ write_ind.pending + nn <= MAX_IN_PROGRESS_BYTES_WRITE

\* the packed word after a granted reservation of nn bytes
increment_in_progress(nn) ==
    [write_ind EXCEPT !.to_write = BitAnd(@ + nn, RINGBUF_IND_MASK),
                      !.pending = @ + nn]

\* the packed word after the commit of nn bytes
increment_done(nn) ==
    LET p == write_ind.pending - nn
    IN  [write_ind EXCEPT !.pending = p,
                          !.index = IF p = 0 THEN write_ind.to_write ELSE @]

\* whether the consumer gets the read side for nn bytes
increment_start_ok(nn) ==
    /\ ~read_ind.locked
    /\ ~pop_error_condition(read_ind.index, nn)

\* the read index after a pop of nn bytes
read_increment_done(nn) ==
    [index |-> BitAnd(read_ind.index + nn, RINGBUF_IND_MASK), locked |-> FALSE]

(***************************************************************************)
(* Ranges of cells                                                         *)
(***************************************************************************)
Cells == 0 .. RINGBUF_IND_MASK

\* cell i lies in the len cells that start at from, around the ring
InRange(i, from, len) ==
    BitAnd(i + RINGBUF_IND_MASK + 1 - from, RINGBUF_IND_MASK) < len

\* the cells after `for (i, &v) in v.iter().enumerate()` has stored the len
\* bytes of slice id: byte k goes to cell (from + k) & mask, so cell i, which
\* is d cells after `from` around the ring, ends with the last byte k < len
\* that is d modulo the ring size, and keeps its value when there is none
WriteLoop(b, from, id, len) ==
    [i \in Cells |->
        LET d == IF i >= from THEN i - from ELSE i + RINGBUF_IND_MASK + 1 - from
        IN  IF d < len
            THEN Byte(id, d + (RINGBUF_IND_MASK + 1)
                               * ((len - 1 - d) \div (RINGBUF_IND_MASK + 1)))
            ELSE b[i]]

\* cell i is in a range some producer has reserved and not committed
Reserved(i) ==
    \E q \in Producers :
        /\ pc[q] \in {"reserved", "written"}
        /\ InRange(i, to_write_index[q], n[q])

\* the write loop of producer p touches a cell that holds a byte not yet
\* popped or that belongs to a later reservation. With d the distance of a
\* cell from the start of p's range: the loop touches d < v.len(), the bytes
\* not yet popped lie in the `before` cells that end at d = mask, the later
\* reservations in the `after` cells that start at d = n
WritesUnpopped(p) ==
    LET before == BitAnd(to_write_index[p] + RINGBUF_IND_MASK + 1 - read_ind.index,
                         RINGBUF_IND_MASK)
        after  == BitAnd(write_ind.to_write + 2 * (RINGBUF_IND_MASK + 1)
                           - to_write_index[p] - n[p], RINGBUF_IND_MASK)
    IN  \E d \in Cells :
            /\ d < vlen[p]
            /\ \/ d >= RINGBUF_IND_MASK + 1 - before
               \/ d >= n[p] /\ d < n[p] + after

(***************************************************************************)
(* try_push                                                                *)
(***************************************************************************)
\* the call up to the outcome of increment_in_progress
TryPushReserve(p, len) ==
    /\ pc[p] = "idle"
    /\ LET nn == len % U8_RANGE
       IN  \/ /\ increment_in_progress_ok(nn)
              /\ write_ind' = increment_in_progress(nn)
              /\ vlen' = [vlen EXCEPT ![p] = len]
              /\ n' = [n EXCEPT ![p] = nn]
              /\ to_write_index' = [to_write_index EXCEPT ![p] = write_ind.to_write]
              /\ pc' = [pc EXCEPT ![p] = "reserved"]
              /\ lens' = Append(lens, nn)
              /\ pushId' = [pushId EXCEPT ![p] = Len(lens) + 1]
              /\ res' = [res EXCEPT ![p] = "none"]
           \/ /\ ~increment_in_progress_ok(nn)
              /\ res' = [res EXCEPT ![p] = "full"]
              /\ UNCHANGED <<write_ind, vlen, n, to_write_index, pc, lens, pushId>>
    /\ UNCHANGED <<buf, read_ind, cpc, cN, to_read_index, popped, cres, popBase,
                   popRace, overwrote, tabVars, gssVars, thrVars>>

\* the loop that writes the slice into the cells
TryPushWrite(p) ==
    /\ pc[p] = "reserved"
    /\ buf' = WriteLoop(buf, to_write_index[p], pushId[p], vlen[p])
    /\ overwrote' = (overwrote \/ WritesUnpopped(p))
    /\ pc' = [pc EXCEPT ![p] = "written"]
    /\ UNCHANGED <<write_ind, read_ind, vlen, n, to_write_index, pushId, res,
                   cpc, cN, to_read_index, popped, cres, lens, popBase, popRace,
                   calls, tabVars, gssVars, thrVars>>

\* increment_done and the return of Some(())
TryPushDone(p) ==
    /\ pc[p] = "written"
    /\ write_ind' = increment_done(n[p])
    /\ pc' = [pc EXCEPT ![p] = "idle"]
    /\ res' = [res EXCEPT ![p] = "ok"]
    /\ vlen' = [vlen EXCEPT ![p] = 0]
    /\ n' = [n EXCEPT ![p] = 0]
    /\ to_write_index' = [to_write_index EXCEPT ![p] = 0]
    /\ pushId' = [pushId EXCEPT ![p] = 0]
    /\ UNCHANGED <<buf, read_ind, cpc, cN,
                   to_read_index, popped, cres, lens, popBase, popRace, overwrote,
                   calls, tabVars, gssVars, thrVars>>

(***************************************************************************)
(* try_pop                                                                 *)
(***************************************************************************)
\* the call up to the outcome of increment_start
TryPopStart(nn) ==
    /\ cpc = "idle"
    /\ \/ /\ increment_start_ok(nn)
          /\ read_ind' = [read_ind EXCEPT !.locked = TRUE]
          /\ cN' = nn
          /\ to_read_index' = read_ind.index
          /\ cpc' = "started"
          /\ cres' = "none"
       \/ /\ ~increment_start_ok(nn)
          /\ cres' = "empty"
          /\ UNCHANGED <<read_ind, cN, to_read_index, cpc>>
    /\ UNCHANGED <<buf, write_ind, pc, vlen, n, to_write_index, pushId, res,
                   popped, lens, popBase, popRace, overwrote, calls, tabVars, gssVars, thrVars>>

\* a slip: the read loop runs over 1 ..= N
TryPopRead_offbyone ==
    /\ cpc = "started"
    /\ popped' = [i \in 1 .. cN |->
                    buf[BitAnd(to_read_index + i, RINGBUF_IND_MASK)]]
    /\ popRace' = (popRace \/
                   \E i \in 1 .. cN :
                       Reserved(BitAnd(to_read_index + i, RINGBUF_IND_MASK)))
    /\ cpc' = "read"
    /\ UNCHANGED <<buf, write_ind, read_ind, pc, vlen, n, to_write_index, pushId,
                   res, cN, to_read_index, cres, lens, popBase, overwrote,
                   calls, tabVars, gssVars, thrVars>>

\* the loop that reads the N cells
TryPopRead ==
    /\ cpc = "started"
    /\ popped' = [i \in 1 .. cN |->
                    buf[BitAnd(to_read_index + i - 1, RINGBUF_IND_MASK)]]
    /\ popRace' = (popRace \/
                   \E i \in 0 .. cN - 1 :
                       Reserved(BitAnd(to_read_index + i, RINGBUF_IND_MASK)))
    /\ cpc' = "read"
    /\ UNCHANGED <<buf, write_ind, read_ind, pc, vlen, n, to_write_index, pushId,
                   res, cN, to_read_index, cres, lens, popBase, overwrote,
                   calls, tabVars, gssVars, thrVars>>

\* increment_done and the return of Some(popped)
TryPopDone ==
    /\ cpc = "read"
    /\ read_ind' = read_increment_done(cN)
    /\ popBase' = popBase + cN
    /\ cpc' = "idle"
    /\ cres' = "some"
    /\ cN' = 0
    /\ to_read_index' = 0
    /\ popped' = <<>>
    /\ UNCHANGED <<buf, write_ind, pc, vlen, n, to_write_index, pushId, res,
                   lens, popRace, overwrote, calls, tabVars, gssVars, thrVars>>

(***************************************************************************)
(* Specifications of the shared trace buffer                               *)
(***************************************************************************)
InitStb ==
    /\ buf = [i \in Cells |-> Uninit]
    /\ write_ind = [index |-> 0, to_write |-> 0, pending |-> 0]
    /\ read_ind = [index |-> 0, locked |-> FALSE]
    /\ pc = [p \in Producers |-> "idle"]
    /\ vlen = [p \in Producers |-> 0]
    /\ n = [p \in Producers |-> 0]
    /\ to_write_index = [p \in Producers |-> 0]
    /\ pushId = [p \in Producers |-> 0]
    /\ res = [p \in Producers |-> "none"]
    /\ cpc = "idle"
    /\ cN = 0
    /\ to_read_index = 0
    /\ popped = <<>>
    /\ cres = "none"
    /\ lens = <<>>
    /\ popBase = 0
    /\ popRace = FALSE
    /\ overwrote = FALSE
    /\ calls = 0

InitTab ==
    /\ t_r = 0 /\ t_w = 0 /\ t_n = 1 /\ t_op = "none" /\ t_res = FALSE

InitGss ==
    /\ inner = <<>>
    /\ head = 0
    /\ skipped_msr_pages_headers = <<>>
    /\ panicked = FALSE
    /\ undecoded = FALSE
    /\ nextId = 0
    /\ lastTake = <<>>
    /\ lastFailed = <<>>
    /\ delivered = <<>>
    /\ dropLog = <<>>

\* the threads that call finalize()
Finalizers == {"f1", "f2"}

\* the statics of global_storage.rs before the first publish
InitThr ==
    /\ GLOBAL_STORAGE = "None"
    /\ mutex = "free"
    /\ FINALIZE_STARTED = FALSE
    /\ sending_thread = "None"
    /\ spc = "unspawned"
    /\ is_finalizing = FALSE
    /\ wire = <<>>
    /\ fpc = [f \in Finalizers |-> "idle"]
    /\ jh = [f \in Finalizers |-> FALSE]

Init == InitStb /\ InitTab /\ InitGss /\ InitThr

\* producers inside the contract and one consumer
Push(p) ==
    /\ Len(lens) < MaxPushes
    /\ \E len \in PushLens : TryPushReserve(p, len)
    /\ UNCHANGED calls

Next ==
    \/ \E p \in Producers : Push(p)
    \/ \E p \in Producers : TryPushWrite(p)
    \/ \E p \in Producers : TryPushDone(p)
    \/ \E nn \in PopLens : TryPopStart(nn)
    \/ TryPopRead
    \/ TryPopDone

Spec == Init /\ [][Next]_vars

\* slices of any length, also lengths above MAX_IN_PROGRESS and above the mask
PushOversize(p) ==
    /\ Len(lens) < MaxPushes
    /\ \E len \in OversizeLens : TryPushReserve(p, len)
    /\ UNCHANGED calls

NextOversize ==
    \/ \E p \in Producers : PushOversize(p)
    \/ \E p \in Producers : TryPushWrite(p)
    \/ \E p \in Producers : TryPushDone(p)
    \/ \E nn \in PopLens : TryPopStart(nn)
    \/ TryPopRead
    \/ TryPopDone

SpecOversize == Init /\ [][NextOversize]_vars

\* the fill scenario: 10-byte pushes into the empty ring, never a pop
PushFill(p) ==
    /\ calls < MaxFillCalls
    /\ \E len \in FillLens : TryPushReserve(p, len)
    /\ calls' = calls + 1

NextFill ==
    \/ \E p \in Producers : PushFill(p)
    \/ \E p \in Producers : TryPushWrite(p)
    \/ \E p \in Producers : TryPushDone(p)

SpecFill == Init /\ [][NextFill]_vars

(***************************************************************************)
(* The truth tables of can_pop and can_push (mask = 3)                     *)
(***************************************************************************)
InitTables ==
    /\ InitStb
    /\ InitGss
    /\ InitThr
    /\ t_r \in 0 .. TEST_INDEX_MASK
    /\ t_w \in 0 .. TEST_INDEX_MASK
    /\ t_n \in 1 .. TableMaxN
    /\ t_op = "none"
    /\ t_res = FALSE

ApplyCanPop ==
    /\ t_op = "none"
    /\ t_op' = "pop"
    /\ t_res' = can_pop(t_r, t_w, t_n, TEST_INDEX_MASK)
    /\ UNCHANGED <<t_r, t_w, t_n, stbVars, gssVars, thrVars>>

ApplyCanPush ==
    /\ t_op = "none"
    /\ t_op' = "push"
    /\ t_res' = can_push(t_r, t_w, t_n, TEST_INDEX_MASK)
    /\ UNCHANGED <<t_r, t_w, t_n, stbVars, gssVars, thrVars>>

NextTables == ApplyCanPop \/ ApplyCanPush

SpecTables == InitTables /\ [][NextTables]_vars

(***************************************************************************)
(* Properties of the shared trace buffer                                   *)
(***************************************************************************)
\* the bytes reserved by the producers that have not committed yet
InFlight(p) == IF pc[p] = "idle" THEN 0 ELSE n[p]

RECURSIVE SumInFlight(_)
SumInFlight(ps) ==
    IF ps = {} THEN 0
    ELSE LET p == CHOOSE q \in ps : TRUE
         IN  InFlight(p) + SumInFlight(ps \ {p})

\* the stream position at which reservation j starts
StartOf(j) == SumSeq(SubSeq(lens, 1, j - 1))

\* C1: with concurrent producers and one consumer, a pop never reads a cell
\* of a range that is reserved and not yet committed, and the pops return the
\* pushed bytes in reservation order, each exactly once (the pop that starts
\* at stream position popBase returns the bytes popBase .. popBase + N - 1).
C1_PopsCommittedBytesOnce ==
    /\ ~popRace
    /\ cpc = "read" =>
          \A i \in 1 .. cN : popped[i] = StreamByte(popBase + i - 1)

\* C1 witness: a pop has read its bytes while both producers hold a
\* reservation that is not yet committed
C1_Witness ==
    /\ cpc = "read"
    /\ pc[1] = "reserved"
    /\ pc[2] = "written"
    /\ popped[1] # Uninit

\* C2 (as stated): whenever can_push holds for a slice of 1..255 bytes, the
\* try_push call succeeds.
C2_CanPushImpliesSuccess ==
    [][\A p \in Producers : \A len \in PushLens :
          (/\ TryPushReserve(p, len)
           /\ can_push(read_ind.index, write_ind.to_write, len, RINGBUF_IND_MASK))
          => pc'[p] = "reserved"]_vars

\* C2 (amended): whenever can_push holds for a slice of 1..255 bytes and the
\* bytes in progress plus the slice stay within MAX_IN_PROGRESS (80), the
\* try_push call succeeds; and a pop of |v| bytes that starts where the slice
\* v starts returns exactly v, also when the range wraps past the end.
C2_PushThenPopRoundTrip ==
    /\ [][\A p \in Producers : \A len \in PushLens :
            (/\ TryPushReserve(p, len)
             /\ (read_ind.index - write_ind.to_write - 1) % (RINGBUF_IND_MASK + 1) >= len
             /\ write_ind.pending + len <= 80)
            => (/\ pc'[p] = "reserved"
                /\ n'[p] = len
                /\ to_write_index'[p] = write_ind.to_write)]_vars
    /\ [](cpc = "read" =>
            \A j \in 1 .. Len(lens) :
                (StartOf(j) = popBase /\ lens[j] = cN)
                => \A i \in 1 .. cN : popped[i] = Byte(j, i - 1))

\* C2 witness: a pop of 80 bytes whose range wraps past the end of the array
\* has read the 80-byte slice that was pushed there
C2_Witness ==
    /\ cpc = "read"
    /\ to_read_index + cN > RINGBUF_IND_MASK + 1
    /\ \E j \in 1 .. Len(lens) : StartOf(j) = popBase /\ lens[j] = cN
    /\ popped[cN] = Byte(Len(lens), cN - 1)

\* C3: the bytes-in-progress counter is the sum of the sizes of the
\* reserved, uncommitted pushes and never exceeds 80.
C3_PendingBounded ==
    /\ write_ind.pending = SumInFlight(Producers)
    /\ write_ind.pending <= 80

\* C3 witness: two producers hold reservations that add up to the limit
C3_Witness ==
    /\ pc[1] # "idle"
    /\ pc[2] # "idle"
    /\ write_ind.pending = 80

\* C4 (as stated): a try_push of more than MAX_IN_PROGRESS bytes, or of more
\* bytes than the mask, returns Full and leaves the write index, the pending
\* counter, the read index and the cells as they were.
C4_OversizeReturnsFull ==
    [][\A p \in Producers : \A len \in OversizeLens :
          (/\ TryPushReserve(p, len)
           /\ (len > MAX_IN_PROGRESS_BYTES_WRITE \/ len > RINGBUF_IND_MASK))
          => (/\ pc'[p] = "idle"
              /\ res'[p] = "full"
              /\ UNCHANGED <<write_ind, read_ind, buf>>)]_vars

\* C5: 10-byte pushes into the empty 256-byte ring without a pop: exactly 25
\* are granted and a call is refused only after that; no push writes a cell
\* whose byte was not popped; no bytes are in progress once every call has
\* returned.
C5_FillTwentyFive ==
    /\ Len(lens) <= 25
    /\ \A p \in Producers : res[p] = "full" => Len(lens) = 25
    /\ ~overwrote
    /\ (\A p \in Producers : pc[p] = "idle") =>
          /\ write_ind.pending = 0
          /\ Len(lens) = (IF calls < 25 THEN calls ELSE 25)

\* C5 witness: all calls have returned, 25 were granted and a later one was
\* refused
C5_Witness ==
    /\ \A p \in Producers : pc[p] = "idle"
    /\ calls > 25
    /\ Len(lens) = 25
    /\ \E p \in Producers : res[p] = "full"
    /\ write_ind.to_write = 250

(***************************************************************************)
(* Properties of the truth tables                                          *)
(***************************************************************************)
\* C6: for mask = 3, can_pop(r, w, n) is true exactly when (w - r) mod 4 >= n.
C6_CanPopTable ==
    t_op = "pop" => (t_res <=> ((t_w - t_r) % 4 >= t_n))

\* C6 witness: can_pop answered true on a wrapped pair of indices
C6_Witness ==
    t_op = "pop" /\ t_res /\ t_r = 3 /\ t_w = 1 /\ t_n = 2

\* C7: for mask = 3, can_push(r, w, n) is true exactly when
\* (mask + r - w) mod (mask + 1) >= n, so the unread bytes plus the granted n
\* never exceed mask.
C7_CanPushTable ==
    t_op = "push" =>
        /\ t_res <=> ((TEST_INDEX_MASK + t_r - t_w) % (TEST_INDEX_MASK + 1) >= t_n)
        /\ t_res => ((t_w - t_r) % (TEST_INDEX_MASK + 1)) + t_n <= TEST_INDEX_MASK

\* C7 witness: can_push refused the byte that would fill the last free cell
C7_Witness ==
    t_op = "push" /\ ~t_res /\ t_r = 0 /\ t_w = 3 /\ t_n = 1

\* C8 (as stated): for mask = 3, can_push(r, w, n) is true exactly when
\* (r - w - 1) mod 4 >= n - 1, and that is the same as
\* (mask + r - w) mod (mask + 1) >= n.
C8_CanPushMinusOne ==
    t_op = "push" =>
        /\ t_res <=> ((t_r - t_w - 1) % 4 >= t_n - 1)
        /\ ((t_r - t_w - 1) % 4 >= t_n - 1)
             <=> ((TEST_INDEX_MASK + t_r - t_w) % (TEST_INDEX_MASK + 1) >= t_n)

\* C8 (amended): for mask = 3, can_push(r, w, n) is true exactly when
\* (r - w - 1) mod 4 >= n, and that is the same as
\* (mask + r - w) mod (mask + 1) >= n.
C8_CanPushFreeCells ==
    t_op = "push" =>
        /\ t_res <=> ((t_r - t_w - 1) % 4 >= t_n)
        /\ ((t_r - t_w - 1) % 4 >= t_n)
             <=> ((TEST_INDEX_MASK + t_r - t_w) % (TEST_INDEX_MASK + 1) >= t_n)

\* C8 witness: exactly n - 1 cells are free and can_push answered false
C8_Witness ==
    t_op = "push" /\ ~t_res /\ t_r = 2 /\ t_w = 0 /\ t_n = 2

(***************************************************************************)
(* GlobalStorage (src/sparkles/src/global_storage.rs)                      *)
(*                                                                         *)
(* The ring holds up to GLOBAL_CAPACITY bytes. Its content is kept as a    *)
(* sequence of runs [kind, h, fill, off, cnt]: the cnt bytes from offset   *)
(* off of the length prefix ("len"), of the serialised header ("hdr") or   *)
(* of the body ("body", every byte of it fill) of the frame pushed with    *)
(* header h. Every byte of a run has a value (SegByte), so what the drop   *)
(* pass reads is decoded from bytes, wherever in a frame it reads.         *)
(***************************************************************************)
GLOBAL_CAPACITY == 500000000
\* (GLOBAL_CAPACITY as f64 * 0.9) as usize
CLEANUP_THRESHOLD == (GLOBAL_CAPACITY \div 10) * 9
CLEANUP_BOTTOM_THRESHOLD == 350000000
FLUSH_THRESHOLD == 5000000
\* usize::to_be_bytes: the width of the length prefix
LEN_BYTES == 8
\* the bytes of a serialised header besides the thread name: the u64 length
\* of the name, thread_id, initial_timestamp, end_timestamp, the u64 entry
\* count of the id store, buf_length
HEADER_FIXED_BYTES == 48
\* a single byte below this value is a whole UTF-8 character
ASCII_END == 128

\* frames handed to push_buf in one behaviour
MaxFrames == 5
\* the longest thread name whose bytes the header decoder is asked to check
MaxNameLen == 4

\* the packets handed to push_buf: the bytes of the thread name, buf.len()
\* and the value of the bytes of buf; with the length prefix and the header
\* they make frames of 1060, 120 000 000 and 300 000 000 bytes
Packets ==
    { [thread_name |-> <<109, 97, 105, 110>>, body |-> 1000, fill |-> 255],
      [thread_name |-> <<>>, body |-> 119999944, fill |-> 0],
      [thread_name |-> <<>>, body |-> 299999944, fill |-> 0] }

\* a decoded u64 that does not fit the integers of the model (2^31 - 1)
Huge == 1073741823 + 1073741824

Min(a, b) == IF a < b THEN a ELSE b

(***************************************************************************)
(* Encoding: to_be_bytes and bincode::serialize of LocalPacketHeader       *)
(***************************************************************************)
Pow256(k) == CASE k = 0 -> 1 [] k = 1 -> 256 [] k = 2 -> 65536 [] OTHER -> 16777216

\* byte k (0 is the least significant) of the u64 x < 2^31
U64Byte(x, k) == IF k > 3 THEN 0 ELSE (x \div Pow256(k)) % 256

\* byte k of x.to_be_bytes()
BEByte(x, k) == U64Byte(x, LEN_BYTES - 1 - k)

\* byte k of x as bincode writes a u64: little endian, fixed width
LEByte(x, k) == U64Byte(x, k)

\* header.len() of the serialised header h
HeaderLen(h) == HEADER_FIXED_BYTES + Len(h.thread_name)

\* byte k of bincode::serialize(&h): thread_name (u64 length, bytes),
\* thread_id, initial_timestamp, end_timestamp, id_store (no entries),
\* buf_length
HeaderByte(h, k) ==
    LET nl == Len(h.thread_name)
    IN  IF k < 8 THEN LEByte(nl, k)
        ELSE IF k < 8 + nl THEN h.thread_name[k - 8 + 1]
        ELSE IF k < 16 + nl THEN LEByte(h.thread_id, k - 8 - nl)
        ELSE IF k < 24 + nl THEN LEByte(h.initial_timestamp, k - 16 - nl)
        ELSE IF k < 32 + nl THEN LEByte(h.end_timestamp, k - 24 - nl)
        ELSE IF k < 40 + nl THEN 0
        ELSE LEByte(h.buf_length, k - 40 - nl)

\* byte j of the run seg
SegByte(seg, j) ==
    CASE seg.kind = "len" -> BEByte(HeaderLen(seg.h), seg.off + j)
      [] seg.kind = "hdr" -> HeaderByte(seg.h, seg.off + j)
      [] OTHER -> seg.fill

(***************************************************************************)
(* The ring: ringbuf::LocalRb<Heap<u8>>                                    *)
(***************************************************************************)
RECURSIVE occupied_len(_)
occupied_len(ring) ==
    IF ring = <<>> THEN 0 ELSE Head(ring).cnt + occupied_len(Tail(ring))

RECURSIVE RingByte(_, _)
\* byte i (0 is the oldest) of the ring, i < occupied_len
RingByte(ring, i) ==
    IF i < Head(ring).cnt THEN SegByte(Head(ring), i)
    ELSE RingByte(Tail(ring), i - Head(ring).cnt)

\* the 8 bytes from position at, as a sequence
Bytes8(ring, at) == [k \in 1 .. 8 |-> RingByte(ring, at + k - 1)]

RECURSIVE DropFront(_, _)
\* the ring without its k oldest bytes, k <= occupied_len
DropFront(ring, k) ==
    IF k = 0 \/ ring = <<>> THEN ring
    ELSE IF k >= Head(ring).cnt THEN DropFront(Tail(ring), k - Head(ring).cnt)
    ELSE <<[Head(ring) EXCEPT !.off = @ + k, !.cnt = @ - k]>> \o Tail(ring)

RECURSIVE TakeFront(_, _)
\* the k oldest bytes of the ring, k <= occupied_len
TakeFront(ring, k) ==
    IF k = 0 \/ ring = <<>> THEN <<>>
    ELSE IF k >= Head(ring).cnt
         THEN <<Head(ring)>> \o TakeFront(Tail(ring), k - Head(ring).cnt)
         ELSE <<[Head(ring) EXCEPT !.cnt = k]>>

\* push_slice: appends as many bytes of the slice as are vacant, and no more
push_slice(ring, seg) ==
    LET m == Min(seg.cnt, GLOBAL_CAPACITY - occupied_len(ring))
    IN  IF m = 0 THEN ring ELSE Append(ring, [seg EXCEPT !.cnt = m])

\* skip(count): removes min(count, occupied_len) bytes
skip(ring, count) == DropFront(ring, Min(count, occupied_len(ring)))

\* as_slices that returns the bytes up to the physical end of the storage
\* and misses the bytes that wrapped to its start
as_slices_nowrap(ring, hd) ==
    <<TakeFront(ring, Min(occupied_len(ring), GLOBAL_CAPACITY - hd)), <<>>>>

\* as_slices: the occupied bytes up to the physical end of the storage, and
\* the rest from its start
as_slices(ring, hd) ==
    LET first == Min(occupied_len(ring), GLOBAL_CAPACITY - hd)
    IN  <<TakeFront(ring, first), DropFront(ring, first)>>

(***************************************************************************)
(* Decoding: from_be_bytes and bincode::deserialize                        *)
(***************************************************************************)
\* the u64 whose little-endian bytes are b
DecLE(b) ==
    IF b[5] = 0 /\ b[6] = 0 /\ b[7] = 0 /\ b[8] = 0 /\ b[4] < 128
    THEN b[1] + 256 * b[2] + 65536 * b[3] + 16777216 * b[4]
    ELSE Huge

\* usize::from_be_bytes(b)
DecBE(b) == DecLE([k \in 1 .. 8 |-> b[9 - k]])

\* bincode::deserialize::<LocalPacketHeader> of the len bytes at the front of
\* the ring: ok is FALSE when it returns Err; known is FALSE when the bytes
\* lie outside what this model decodes (a name longer than MaxNameLen or
\* with bytes that are not ASCII, an id store with entries)
deserialize(ring, len) ==
    LET nl     == IF len < 8 THEN 0 ELSE DecLE(Bytes8(ring, 0))
        fits   == len >= 8 /\ nl <= len - 8 /\ len - 8 - nl >= 40
        count  == DecLE(Bytes8(ring, 32 + nl))
        known  == /\ nl <= MaxNameLen
                  /\ \A k \in 0 .. nl - 1 : RingByte(ring, 8 + k) < ASCII_END
                  /\ count = 0
        none   == [thread_name |-> <<>>, thread_id |-> 0,
                   initial_timestamp |-> 0, end_timestamp |-> 0,
                   buf_length |-> 0]
    IN  IF ~fits THEN [ok |-> FALSE, known |-> TRUE, h |-> none]
        ELSE IF ~known THEN [ok |-> FALSE, known |-> FALSE, h |-> none]
        ELSE [ok |-> TRUE, known |-> TRUE,
              h |-> [thread_name |-> [k \in 1 .. nl |-> RingByte(ring, 7 + k)],
                     thread_id |-> DecLE(Bytes8(ring, 8 + nl)),
                     initial_timestamp |-> DecLE(Bytes8(ring, 16 + nl)),
                     end_timestamp |-> DecLE(Bytes8(ring, 24 + nl)),
                     buf_length |-> DecLE(Bytes8(ring, 40 + nl))]]

(***************************************************************************)
(* push_buf, take_failed_pages, try_take_buf                               *)
(***************************************************************************)
RECURSIVE DropPass(_, _)
\* while occupied_len > CLEANUP_BOTTOM_THRESHOLD: read the 8-byte length,
\* read and deserialise the header, skip buf_length bytes, record the header.
\* read_exact(8) cannot fail here, more than CLEANUP_BOTTOM_THRESHOLD bytes
\* being occupied; read_exact(header_len) fails when fewer bytes are left.
DropPass(ring, skipped) ==
    IF occupied_len(ring) <= CLEANUP_BOTTOM_THRESHOLD
    THEN [inner |-> ring, skipped |-> skipped, panicked |-> FALSE,
          undecoded |-> FALSE]
    ELSE LET header_len == DecBE(Bytes8(ring, 0))
             r1         == DropFront(ring, LEN_BYTES)
         IN  IF header_len > occupied_len(r1)
             THEN [inner |-> r1, skipped |-> skipped, panicked |-> TRUE,
                   undecoded |-> FALSE]
             ELSE LET d  == deserialize(r1, header_len)
                      r2 == DropFront(r1, header_len)
                  IN  IF ~d.ok
                      THEN [inner |-> r2, skipped |-> skipped,
                            panicked |-> d.known, undecoded |-> ~d.known]
                      ELSE DropPass(skip(r2, d.h.buf_length),
                                    Append(skipped, d.h))

\* the header of the next packet: buf_length is buf.len()
NewHeader(pk) ==
    [thread_name       |-> pk.thread_name,
     thread_id         |-> nextId + 1,
     initial_timestamp |-> 10 * nextId + 1,
     end_timestamp     |-> 10 * nextId + 9,
     buf_length        |-> pk.body]

\* the three push_slice calls of push_buf
AppendFrame(ring, h, pk) ==
    LET r1 == push_slice(ring, [kind |-> "len", h |-> h, fill |-> 0,
                                off |-> 0, cnt |-> LEN_BYTES])
        r2 == push_slice(r1, [kind |-> "hdr", h |-> h, fill |-> 0,
                              off |-> 0, cnt |-> HeaderLen(h)])
    IN  push_slice(r2, [kind |-> "body", h |-> h, fill |-> pk.fill,
                        off |-> 0, cnt |-> pk.body])

RECURSIVE Coalesce(_)
\* the same bytes with adjacent runs of one slice joined
Coalesce(ring) ==
    IF Len(ring) < 2 THEN ring
    ELSE LET a == ring[1]
             b == ring[2]
         IN  IF /\ a.kind = b.kind /\ a.h = b.h /\ a.fill = b.fill
                /\ a.off + a.cnt = b.off
             THEN Coalesce(<<[a EXCEPT !.cnt = a.cnt + b.cnt]>>
                               \o SubSeq(ring, 3, Len(ring)))
             ELSE <<a>> \o Coalesce(Tail(ring))

\* GlobalStorage::push_buf(header, buf). Once an unwrap() has failed under
\* the lock the mutex is poisoned and every later lock().unwrap() fails, so
\* nothing acts on the storage after a panic.
push_buf(pk) ==
    /\ ~panicked
    /\ ~undecoded
    /\ nextId < MaxFrames
    /\ LET r3 == AppendFrame(inner, NewHeader(pk), pk)
           d  == IF occupied_len(r3) > CLEANUP_THRESHOLD
                 THEN DropPass(r3, skipped_msr_pages_headers)
                 ELSE [inner |-> r3, skipped |-> skipped_msr_pages_headers,
                       panicked |-> FALSE, undecoded |-> FALSE]
       IN  /\ inner' = d.inner
           /\ head' = (head + (occupied_len(r3) - occupied_len(d.inner)))
                          % GLOBAL_CAPACITY
           /\ skipped_msr_pages_headers' = d.skipped
           /\ panicked' = d.panicked
           /\ undecoded' = d.undecoded
           /\ dropLog' = dropLog \o SubSeq(d.skipped,
                                            Len(skipped_msr_pages_headers) + 1,
                                            Len(d.skipped))
    /\ nextId' = nextId + 1
    /\ UNCHANGED <<lastTake, lastFailed, delivered, stbVars, tabVars>>

\* take_failed_pages that returns the headers and leaves them in the list
take_failed_pages_clone ==
    /\ ~panicked
    /\ ~undecoded
    /\ lastFailed' = skipped_msr_pages_headers
    /\ UNCHANGED <<inner, head, skipped_msr_pages_headers, panicked, undecoded,
                   nextId, lastTake, delivered, dropLog, stbVars, tabVars>>

\* GlobalStorage::take_failed_pages: mem::take of the recorded headers
take_failed_pages ==
    /\ ~panicked
    /\ ~undecoded
    /\ lastFailed' = skipped_msr_pages_headers
    /\ skipped_msr_pages_headers' = <<>>
    /\ UNCHANGED <<inner, head, panicked, undecoded, nextId, lastTake,
                   delivered, dropLog, stbVars, tabVars>>

\* GlobalStorage::try_take_buf(take_everything)
try_take_buf(take_everything) ==
    /\ ~panicked
    /\ ~undecoded
    /\ LET threshold == IF take_everything THEN 0 ELSE FLUSH_THRESHOLD
           slices    == as_slices(inner, head)
       IN  IF occupied_len(inner) > threshold
           THEN /\ lastTake' = <<"Some", slices[1], slices[2]>>
                /\ head' = (head + occupied_len(inner)) % GLOBAL_CAPACITY
                /\ inner' = <<>>
                /\ delivered' = Coalesce(delivered \o slices[1] \o slices[2])
           ELSE /\ lastTake' = <<"None">>
                /\ UNCHANGED <<inner, head, delivered>>
    /\ UNCHANGED <<skipped_msr_pages_headers, panicked, undecoded, nextId,
                   lastFailed, dropLog, stbVars, tabVars>>

NextGss ==
    \/ \E pk \in Packets : push_buf(pk) /\ UNCHANGED thrVars
    \/ take_failed_pages /\ UNCHANGED thrVars
    \/ \E take_everything \in BOOLEAN :
           try_take_buf(take_everything) /\ UNCHANGED thrVars

SpecGss == Init /\ [][NextGss]_vars

(***************************************************************************)
(* Properties of GlobalStorage                                             *)
(***************************************************************************)
RECURSIVE IsFrames(_)
\* the bytes of ring parse, from the oldest byte to the newest, as frames
\* [8-byte big-endian header_len][header][header.buf_length bytes]
IsFrames(ring) ==
    \/ ring = <<>>
    \/ /\ occupied_len(ring) >= LEN_BYTES
       /\ LET header_len == DecBE(Bytes8(ring, 0))
              r1         == DropFront(ring, LEN_BYTES)
          IN  /\ header_len <= occupied_len(r1)
              /\ LET d  == deserialize(r1, header_len)
                     r2 == DropFront(r1, header_len)
                 IN  /\ d.ok
                     /\ d.h.buf_length <= occupied_len(r2)
                     /\ IsFrames(DropFront(r2, d.h.buf_length))

\* C9: after any sequence of push_buf (with its drop pass) and try_take_buf
\* calls, the bytes held in the staging ring are a concatenation of whole
\* frames [8-byte big-endian header_len][header][body of buf_length bytes].
C9_RingIsWholeFrames == IsFrames(inner)

\* C10: push_buf never panics, whatever the frame and the state of the
\* staging store, a frame larger than the vacant space included.
C10_PushBufNeverPanics == ~panicked

\* run i of ring starts a frame as push_buf appended it: the whole length
\* prefix, the whole header and the whole body of one packet
WholeFrameAt(ring, i) ==
    LET h    == ring[i].h
        runs == IF h.buf_length = 0 THEN 2 ELSE 3
    IN  /\ i + runs - 1 <= Len(ring)
        /\ ring[i].kind = "len" /\ ring[i].off = 0 /\ ring[i].cnt = LEN_BYTES
        /\ ring[i + 1].kind = "hdr" /\ ring[i + 1].h = h
        /\ ring[i + 1].off = 0 /\ ring[i + 1].cnt = HeaderLen(h)
        /\ h.buf_length > 0 =>
               /\ ring[i + 2].kind = "body" /\ ring[i + 2].h = h
               /\ ring[i + 2].off = 0 /\ ring[i + 2].cnt = h.buf_length

RECURSIVE WholeFrames(_)
\* ring is a concatenation of frames as push_buf appended them
WholeFrames(ring) ==
    \/ ring = <<>>
    \/ /\ WholeFrameAt(ring, 1)
       /\ WholeFrames(SubSeq(ring,
                             IF ring[1].h.buf_length = 0 THEN 3 ELSE 4,
                             Len(ring)))

RECURSIVE HeadersOf(_)
\* the headers of the frames that start in ring, in order
HeadersOf(ring) ==
    IF ring = <<>> THEN <<>>
    ELSE IF Head(ring).kind = "len" /\ Head(ring).off = 0
         THEN <<Head(ring).h>> \o HeadersOf(Tail(ring))
         ELSE HeadersOf(Tail(ring))

\* C11: when occupancy exceeds CLEANUP_THRESHOLD after push_buf appended
\* its frame and push_buf returns, occupancy is at most
\* CLEANUP_BOTTOM_THRESHOLD, the bytes removed are the oldest whole frames
\* of the ring, and their headers were appended to the skipped headers, in
\* the order the frames were pushed, after the headers already there.
C11_DropPassFifo ==
    [][\A pk \in Packets :
         LET r3      == AppendFrame(inner, NewHeader(pk), pk)
             removed == occupied_len(r3) - occupied_len(inner')
             gone    == TakeFront(r3, removed)
         IN  (/\ push_buf(pk)
              /\ ~panicked'
              /\ occupied_len(r3) > CLEANUP_THRESHOLD)
             => /\ occupied_len(inner') <= CLEANUP_BOTTOM_THRESHOLD
                /\ inner' = DropFront(r3, removed)
                /\ WholeFrames(gone)
                /\ skipped_msr_pages_headers' =
                       skipped_msr_pages_headers \o HeadersOf(gone)]_vars

\* C12: try_take_buf(false) returns None and leaves the ring unchanged when
\* occupied <= FLUSH_THRESHOLD; try_take_buf(true) returns Some whenever
\* occupied > 0; whenever Some((a, b)) is returned, a followed by b is the
\* whole content of the ring, oldest byte first, and the ring is empty
\* afterwards.
C12_TryTakeBuf ==
    [][\A take_everything \in BOOLEAN :
         try_take_buf(take_everything)
         => /\ (~take_everything /\ occupied_len(inner) <= FLUSH_THRESHOLD)
                => (lastTake'[1] = "None" /\ inner' = inner)
            /\ (take_everything /\ occupied_len(inner) > 0)
                => lastTake'[1] = "Some"
            /\ lastTake'[1] = "Some"
                => /\ Coalesce(lastTake'[2] \o lastTake'[3]) = inner
                   /\ occupied_len(lastTake'[2]) + occupied_len(lastTake'[3])
                          = occupied_len(inner)
                   /\ inner' = <<>>]_vars

\* a ring that wrapped was taken: both slices hold bytes, and a smaller ring
\* was left alone by try_take_buf(false)
C12_Witness ==
    /\ Len(lastTake) = 3
    /\ lastTake[2] # <<>>
    /\ lastTake[3] # <<>>
    /\ inner = <<>>

\* the number of whole frames of packet id in ring
WholeCount(ring, id) ==
    Cardinality({i \in DOMAIN ring :
                    ring[i].h.thread_id = id /\ WholeFrameAt(ring, i)})

\* C20: every frame accepted by push_buf is accounted for exactly once: it
\* is whole in the ring, or was returned whole by exactly one try_take_buf,
\* or its header was recorded exactly once as skipped.
C20_FramesAccountedOnce ==
    ~panicked =>
        \A id \in 1 .. nextId :
            WholeCount(inner, id) + WholeCount(delivered, id)
                + Cardinality({i \in DOMAIN dropLog :
                                  dropLog[i].thread_id = id}) = 1

(***************************************************************************)
(* The process: producers that publish, the sender thread, finalize()      *)
(*                                                                         *)
(* The code that publishes to GLOBAL_STORAGE is not part of the sources    *)
(* modelled; Publish follows the specification: the store is initialised   *)
(* on first publish, under the mutex, and push_buf runs under the mutex.   *)
(* A panic inside push_buf poisons the mutex (panicked), after which every *)
(* lock().unwrap() panics.                                                 *)
(***************************************************************************)
\* publishes made in one behaviour of the process
MaxPublish == 3

\* the packets published: frames of 1060, 101 000 000 and 400 000 000 bytes
Publishes ==
    { [thread_name |-> <<109, 97, 105, 110>>, body |-> 1000, fill |-> 255],
      [thread_name |-> <<>>, body |-> 100999944, fill |-> 0],
      [thread_name |-> <<>>, body |-> 399999944, fill |-> 0] }

SenderDead == spc \in {"panicked_connect", "panicked_lock", "panicked_write"}
SenderEnded == spc = "exited" \/ SenderDead

\* a producer publishes a packet: lock, initialise the store if it is None
\* (GlobalStorage::default spawns the sender), push_buf, unlock
Publish(pk) ==
    /\ mutex = "free"
    /\ nextId < MaxPublish
    /\ push_buf(pk)
    /\ GLOBAL_STORAGE' = "Some"
    /\ IF GLOBAL_STORAGE = "None"
       THEN sending_thread' = "Some" /\ spc' = "connect"
       ELSE UNCHANGED <<sending_thread, spc>>
    /\ UNCHANGED <<mutex, FINALIZE_STARTED, is_finalizing, wire, fpc, jh>>

\* TcpStream::connect(..).unwrap() succeeds
SenderConnect ==
    /\ spc = "connect"
    /\ spc' = "sleep"
    /\ UNCHANGED <<GLOBAL_STORAGE, mutex, FINALIZE_STARTED, sending_thread,
                   is_finalizing, wire, fpc, jh, gssVars, stbVars, tabVars>>

\* TcpStream::connect(..) returns Err and unwrap() panics
SenderConnectFail ==
    /\ spc = "connect"
    /\ spc' = "panicked_connect"
    /\ UNCHANGED <<GLOBAL_STORAGE, mutex, FINALIZE_STARTED, sending_thread,
                   is_finalizing, wire, fpc, jh, gssVars, stbVars, tabVars>>

\* the sleep of 100 ms ends; FINALIZE_STARTED.load(Relaxed)
SenderLoad ==
    /\ spc = "sleep"
    /\ is_finalizing' = FINALIZE_STARTED
    /\ spc' = "lock"
    /\ UNCHANGED <<GLOBAL_STORAGE, mutex, FINALIZE_STARTED, sending_thread,
                   wire, fpc, jh, gssVars, stbVars, tabVars>>

\* GLOBAL_STORAGE.lock().unwrap() finds the mutex poisoned and panics
SenderLockPoisoned ==
    /\ spc = "lock"
    /\ panicked
    /\ spc' = "panicked_lock"
    /\ UNCHANGED <<GLOBAL_STORAGE, mutex, FINALIZE_STARTED, sending_thread,
                   is_finalizing, wire, fpc, jh, gssVars, stbVars, tabVars>>

\* GLOBAL_STORAGE.lock().unwrap() takes the mutex when it is free; then
\* global_storage.take_failed_pages(), under the lock
SenderTakeFailed ==
    /\ spc = "lock"
    /\ mutex = "free"
    /\ GLOBAL_STORAGE = "Some"
    /\ take_failed_pages
    /\ mutex' = "sender"
    /\ spc' = "taking"
    /\ UNCHANGED <<GLOBAL_STORAGE, FINALIZE_STARTED, sending_thread,
                   is_finalizing, wire, fpc, jh>>

\* the end of the locked statement without releasing the mutex
SenderTryTake_keepsLock ==
    /\ spc = "taking"
    /\ try_take_buf(is_finalizing)
    /\ spc' = "write"
    /\ UNCHANGED <<GLOBAL_STORAGE, mutex, FINALIZE_STARTED, sending_thread,
                   is_finalizing, wire, fpc, jh>>

\* global_storage.try_take_buf(is_finalizing); the guard is dropped at the
\* end of the statement
SenderTryTake ==
    /\ spc = "taking"
    /\ try_take_buf(is_finalizing)
    /\ mutex' = "free"
    /\ spc' = "write"
    /\ UNCHANGED <<GLOBAL_STORAGE, FINALIZE_STARTED, sending_thread,
                   is_finalizing, wire, fpc, jh>>

\* the 0x01 record of the slices taken
BatchRecord(slices) ==
    [tag       |-> "01",
     total_len |-> occupied_len(slices[2]) + occupied_len(slices[3]),
     payload   |-> Coalesce(slices[2] \o slices[3])]

\* the 0x02 record of a skipped header
DropRecord(h) == [tag |-> "02", header_len |-> HeaderLen(h), header |-> h]

\* a record that a failed write_all left incomplete
Torn == [tag |-> "torn"]

\* "handle buffers" and "handle failed pages": every write_all succeeds;
\* then break if is_finalizing, else the next iteration
SenderWrite ==
    /\ spc = "write"
    /\ wire' = (IF lastTake[1] = "Some" THEN Append(wire, BatchRecord(lastTake))
                ELSE wire)
               \o [i \in 1 .. Len(lastFailed) |-> DropRecord(lastFailed[i])]
    /\ spc' = IF is_finalizing THEN "exited" ELSE "sleep"
    /\ UNCHANGED <<GLOBAL_STORAGE, mutex, FINALIZE_STARTED, sending_thread,
                   is_finalizing, fpc, jh, gssVars, stbVars, tabVars>>

\* a write_all returns Err and unwrap() panics: in the batch, or after k of
\* the drop records; the record being written is lost or left incomplete
SenderWriteFail ==
    /\ spc = "write"
    /\ \/ /\ lastTake[1] = "Some"
          /\ \E torn \in {<<>>, <<Torn>>} : wire' = wire \o torn
       \/ \E k \in 0 .. Len(lastFailed) - 1 :
          \E torn \in {<<>>, <<Torn>>} :
             wire' = (IF lastTake[1] = "Some"
                      THEN Append(wire, BatchRecord(lastTake)) ELSE wire)
                     \o [i \in 1 .. k |-> DropRecord(lastFailed[i])]
                     \o torn
    /\ spc' = "panicked_write"
    /\ UNCHANGED <<GLOBAL_STORAGE, mutex, FINALIZE_STARTED, sending_thread,
                   is_finalizing, fpc, jh, gssVars, stbVars, tabVars>>

\* finalize(): FINALIZE_STARTED.store(true, Relaxed). The callers run the
\* same code, so f2 is taken to be the one that calls second.
FinalizeStore(f) ==
    /\ fpc[f] = "idle"
    /\ f = "f2" => fpc["f1"] # "idle"
    /\ FINALIZE_STARTED' = TRUE
    /\ fpc' = [fpc EXCEPT ![f] = "lock"]
    /\ UNCHANGED <<GLOBAL_STORAGE, mutex, sending_thread, spc, is_finalizing,
                   wire, jh, gssVars, stbVars, tabVars>>

\* finalize(): GLOBAL_STORAGE.lock().unwrap()
FinalizeLock(f) ==
    /\ fpc[f] = "lock"
    /\ IF panicked
       THEN fpc' = [fpc EXCEPT ![f] = "panicked"] /\ UNCHANGED mutex
       ELSE /\ mutex = "free"
            /\ mutex' = f
            /\ fpc' = [fpc EXCEPT ![f] = "locked"]
    /\ UNCHANGED <<GLOBAL_STORAGE, FINALIZE_STARTED, sending_thread, spc,
                   is_finalizing, wire, jh, gssVars, stbVars, tabVars>>

\* GlobalStorage::take_jh: self.sending_thread.take(), as
\* <<what it returns, what it leaves>>
take_jh == <<sending_thread, "None">>

\* finalize(): jh = take_jh() if the store is Some, else None; the guard is
\* dropped at the end of the statement; without a handle finalize returns
FinalizeTakeJh(f) ==
    /\ fpc[f] = "locked"
    /\ LET got == IF GLOBAL_STORAGE = "Some" THEN take_jh
                  ELSE <<"None", sending_thread>>
       IN  /\ jh' = [jh EXCEPT ![f] = (got[1] = "Some")]
           /\ sending_thread' = got[2]
           /\ fpc' = [fpc EXCEPT ![f] = IF got[1] = "Some" THEN "join"
                                        ELSE "returned"]
    /\ mutex' = "free"
    /\ UNCHANGED <<GLOBAL_STORAGE, FINALIZE_STARTED, spc, is_finalizing, wire,
                   gssVars, stbVars, tabVars>>

\* finalize(): jh.join().unwrap() returns once the sender thread has ended,
\* and panics if the sender thread panicked
FinalizeJoin(f) ==
    /\ fpc[f] = "join"
    /\ SenderEnded
    /\ fpc' = [fpc EXCEPT ![f] = IF SenderDead THEN "panicked" ELSE "returned"]
    /\ UNCHANGED <<GLOBAL_STORAGE, mutex, FINALIZE_STARTED, sending_thread, spc,
                   is_finalizing, wire, jh, gssVars, stbVars, tabVars>>

SenderStep ==
    \/ SenderConnect
    \/ SenderLoad
    \/ SenderLockPoisoned
    \/ SenderTakeFailed
    \/ SenderTryTake
    \/ SenderWrite

NextProcess ==
    \/ \E pk \in Publishes : Publish(pk)
    \/ SenderStep
    \/ SenderConnectFail
    \/ SenderWriteFail
    \/ \E f \in Finalizers : FinalizeStore(f)
    \/ \E f \in Finalizers : FinalizeLock(f)
    \/ \E f \in Finalizers : FinalizeTakeJh(f)
    \/ \E f \in Finalizers : FinalizeJoin(f)

SpecProcess == Init /\ [][NextProcess]_vars

\* the threads take their steps: the sender is scheduled, and a thread that
\* waits for the mutex gets it (the sender sleeps 100 ms between two short
\* critical sections)
SpecProcessFair ==
    /\ SpecProcess
    /\ WF_vars(SenderConnect \/ SenderLoad \/ SenderLockPoisoned
                   \/ SenderTryTake \/ SenderWrite)
    /\ SF_vars(SenderTakeFailed)
    /\ \A f \in Finalizers :
           /\ SF_vars(FinalizeLock(f))
           /\ WF_vars(FinalizeTakeJh(f) \/ FinalizeJoin(f))

(***************************************************************************)
(* Properties of the process                                               *)
(***************************************************************************)
\* the headers of the 0x02 records on the wire, in order
WireDrops ==
    LET recs == SelectSeq(wire, LAMBDA r : r.tag = "02")
    IN  [i \in 1 .. Len(recs) |-> recs[i].header]

\* the payloads of the 0x01 records on the wire, one after the other
RECURSIVE WirePayload(_)
WirePayload(w) ==
    IF w = <<>> THEN <<>>
    ELSE (IF Head(w).tag = "01" THEN Head(w).payload ELSE <<>>)
             \o WirePayload(Tail(w))

\* C13: what the sender wrote is a sequence of well-formed wire frames:
\* a 0x01 record carries total_len = |slice_a| + |slice_b| bytes that are a
\* concatenation of whole frames, in the order they were pushed; a 0x02
\* record carries header_len and the serialised header. (A record that a
\* failed write left incomplete can only be the last thing written.)
C13_WireWellFormed ==
    /\ \A i \in DOMAIN wire :
          /\ wire[i].tag = "01" =>
                 /\ wire[i].total_len = occupied_len(wire[i].payload)
                 /\ WholeFrames(wire[i].payload)
          /\ wire[i].tag = "02" =>
                 wire[i].header_len = HeaderLen(wire[i].header)
          /\ wire[i].tag = "torn" => i = Len(wire)
    /\ LET hs == HeadersOf(WirePayload(wire))
       IN  \A i, j \in DOMAIN hs : i < j => hs[i].thread_id < hs[j].thread_id

\* frame id is accounted for: whole in a 0x01 record, or its header was
\* recorded as dropped, or it is still whole in the ring
Accounted(id) ==
    \/ \E i \in DOMAIN wire :
          wire[i].tag = "01" /\ WholeCount(wire[i].payload, id) > 0
    \/ \E i \in DOMAIN dropLog : dropLog[i].thread_id = id
    \/ WholeCount(inner, id) > 0

\* C14: with the sender connected and running, when the finalize() that
\* joined the sender has returned, every frame pushed is whole in a 0x01
\* record or has its header recorded as dropped (or was pushed after the
\* last take and is whole in the ring); and the iteration that observed
\* FINALIZE calls try_take_buf(true), which leaves the ring empty whatever
\* FLUSH_THRESHOLD is.
C14_FinalizeDrains ==
    /\ [](\A f \in Finalizers :
            (fpc[f] = "returned" /\ jh[f] /\ spc = "exited")
            => \A id \in 1 .. nextId : Accounted(id))
    /\ [][(SenderTryTake /\ is_finalizing)
          => (inner' = <<>> /\ (inner # <<>> => lastTake'[1] = "Some"))]_vars

\* C15: after a connection failure or a socket write error has ended the
\* sender, the sender does not hold the mutex (push_buf can still run) and
\* no finalize() call raises an error.
C15_SenderDeathIsSilent ==
    spc \in {"panicked_connect", "panicked_write"}
    => /\ mutex # "sender"
       /\ \A f \in Finalizers : fpc[f] # "panicked"

\* C16: at most one finalize() call takes the sender handle; every other
\* call neither waits for the sender nor raises an error; with the store
\* never initialised no call waits or raises.
C16_FinalizeIdempotent ==
    /\ Cardinality({f \in Finalizers : jh[f]}) <= 1
    /\ \A f \in Finalizers : ~jh[f] => fpc[f] \notin {"join", "panicked"}
    /\ GLOBAL_STORAGE = "None" =>
           \A f \in Finalizers : fpc[f] \notin {"join", "panicked"}

\* C17: with a connected sender, once finalize() has set FINALIZE the
\* sender thread eventually terminates and finalize() eventually returns;
\* the sender leaves its loop at the end of the first iteration that read
\* FINALIZE as true; finalize() does not hold the mutex while it joins.
C17_FinalizeTerminates ==
    /\ \A f \in Finalizers :
           (fpc[f] = "lock" /\ spc \in {"sleep", "lock", "taking", "write"})
               ~> (fpc[f] = "returned" /\ SenderEnded)
    /\ [][(SenderWrite /\ is_finalizing) => spc' = "exited"]_vars
    /\ [](\A f \in Finalizers : fpc[f] = "join" => mutex # f)

\* C18: take_failed_pages returns the skipped headers in drop order and
\* leaves the list empty; every dropped header is written as a 0x02 record
\* at most once, and the 0x02 records are in the order of the drops.
C18_DropRecordsOnceInOrder ==
    /\ [](/\ Len(WireDrops) <= Len(dropLog)
          /\ WireDrops = SubSeq(dropLog, 1, Len(WireDrops))
          /\ \A i, j \in DOMAIN WireDrops :
                 i # j => WireDrops[i] # WireDrops[j])
    /\ [][SenderTakeFailed
          => /\ lastFailed' = skipped_msr_pages_headers
             /\ skipped_msr_pages_headers' = <<>>]_vars

\* two drop records were written
C18_Witness ==
    /\ Len(WireDrops) = 2
    /\ skipped_msr_pages_headers = <<>>
    /\ spc = "sleep"

\* C19: the sender holds the mutex only while it calls take_failed_pages
\* and try_take_buf, never while it sleeps or writes to the socket.
C19_SenderLockIsShort ==
    /\ mutex = "sender" => spc = "taking"
    /\ spc \in {"sleep", "write"} => mutex # "sender"

\* a packet was published while the sender was writing what it had taken
C19_Witness ==
    /\ spc = "write"
    /\ lastTake[1] = "Some"
    /\ inner # <<>>
    /\ mutex = "free"

====
